---- MODULE Spec2Model ----
(***************************************************************************)
(* Model of xtreemfs::Envelope (cpp/src/util/crypto/envelope.cpp):        *)
(* Envelope::Seal and the three overloads of Envelope::Open, stepped one  *)
(* OpenSSL call at a time.  The OpenSSL EVP functions the code calls are  *)
(* modelled by what they do to lengths, buffers and the context (block    *)
(* buffering, PKCS padding, held-back final block, per-key wrap); the     *)
(* ciphers themselves are scaled down to bytes 0..2, a 2-byte block and   *)
(* an idealised key wrap (only the matching private key unwraps).         *)
(***************************************************************************)
EXTENDS Integers, Sequences, FiniteSets, TLC

\* ------------------------------------------------------------------ bounds
MaxLen == 3
MaxKeys == 2

\* ------------------------------------------------------- value domains
Byte == 0 .. 2
PlainBytes == {0, 1}
RandBytes == {0, 1}
SymKeys == {1, 2}
PubKeyIds == {0, 1, 2}
PrivKeyIds == {1, 2}
Stale == 9
StaleVec == <<Stale>>

\* The IVs RAND_bytes is taken to produce.
RandIVs(n) == {[i \in 1 .. n |-> (i + b) % 2] : b \in RandBytes}

Plaintexts == UNION {[1 .. n -> PlainBytes] : n \in 0 .. MaxLen}
PubKeyLists == UNION {[1 .. n -> PubKeyIds] : n \in 0 .. MaxKeys}

\* ------------------------------------------------------ sequence helpers
Min(a, b) == IF a < b THEN a ELSE b

Take(s, n) == SubSeq(s, 1, Min(n, Len(s)))

Drop(s, n) == SubSeq(s, n + 1, Len(s))

\* std::vector<unsigned char>::resize(n): keeps the prefix, value-initialises
\* (zero) the new elements.
Resize(v, n) == [i \in 1 .. n |-> IF i <= Len(v) THEN v[i] ELSE 0]

\* std::vector<std::vector<unsigned char> >::resize(n): new elements are empty.
ResizeOuter(v, n) == [i \in 1 .. n |-> IF i <= Len(v) THEN v[i] ELSE <<>>]

\* What a buffer of Len(b) bytes holds after `bytes` are stored at byte
\* offset off; bytes that fall beyond its end are not part of the buffer.
WriteAt(b, off, bytes) ==
  [i \in 1 .. Len(b) |->
     IF i > off /\ i <= off + Len(bytes) THEN bytes[i - off] ELSE b[i]]

\* ------------------------------------------------- the cipher provider
CipherTable ==
  [cbc    |-> [block_size |-> 2, iv_length |-> 2],
   stream |-> [block_size |-> 1, iv_length |-> 0]]

CipherNames == {"cbc", "stream", "nope"}

\* EVP_get_cipherbyname: the cipher, or NULL ("") for a name that is not known.
EVP_get_cipherbyname(name) == IF name \in DOMAIN CipherTable THEN name ELSE ""

EVP_CIPHER_block_size(c) == CipherTable[c].block_size

EVP_CIPHER_iv_length(c) == CipherTable[c].iv_length

\* EVP_PKEY_size: the maximum size of a key wrapped under k (0: no usable key).
EVP_PKEY_size(k) == CASE k = 1 -> 2 [] k = 2 -> 3 [] OTHER -> 0

\* EVP_PKEY_encrypt_old: the symmetric key wrapped under public key k.
Wrap(k, key) == <<k, key>>

\* EVP_PKEY_decrypt_old: the symmetric key, or 0 when the blob was not wrapped
\* under the public key of private key j.
Unwrap(j, blob) ==
  IF Len(blob) = 2 /\ blob[1] = j /\ blob[2] \in SymKeys THEN blob[2] ELSE 0

EncB(k, b) == (b + k) % 3

DecB(k, b) == (b + 3 - k) % 3

RECURSIVE CbcEnc(_, _, _, _)
\* CBC over whole blocks: c_i = E_k(p_i + c_(i-1)), c_0 = iv.
CbcEnc(k, bs, prev, data) ==
  IF Len(data) < bs THEN <<>>
  ELSE LET c == [j \in 1 .. bs |->
                   EncB(k, (data[j] + (IF prev = <<>> THEN 0 ELSE prev[j])) % 3)]
       IN  c \o CbcEnc(k, bs, IF prev = <<>> THEN prev ELSE c, Drop(data, bs))

RECURSIVE CbcDec(_, _, _, _)
CbcDec(k, bs, prev, data) ==
  IF Len(data) < bs THEN <<>>
  ELSE LET p == [j \in 1 .. bs |->
                   (DecB(k, data[j]) + 3 - (IF prev = <<>> THEN 0 ELSE prev[j])) % 3]
       IN  p \o CbcDec(k, bs, IF prev = <<>> THEN prev ELSE Take(data, bs),
                       Drop(data, bs))

\* The chaining value after `data` (whole blocks) went through the cipher.
LastBlock(bs, prev, data) ==
  IF prev = <<>> \/ Len(data) < bs THEN prev
  ELSE SubSeq(data, Len(data) - bs + 1, Len(data))

\* An EVP_CIPHER_CTX.  state follows what the provider did with it; news
\* and frees count EVP_CIPHER_CTX_new and EVP_CIPHER_CTX_free.
NullCtx ==
  [state |-> "none", live |-> FALSE, news |-> 0, frees |-> 0, cipher |-> "",
   key |-> 0, iv |-> <<>>, buf |-> <<>>, final |-> <<>>, final_used |-> FALSE]

\* EVP_CIPHER_CTX_new
NewCtx == [NullCtx EXCEPT !.state = "Created", !.live = TRUE, !.news = 1]

\* EVP_CIPHER_CTX_free: the key material is cleared with the context.
FreeCtx(c) ==
  [NullCtx EXCEPT !.state = IF c.state = "Failed" THEN "Failed" ELSE "Discarded",
                  !.news = c.news, !.frees = c.frees + 1]

\* The state of a context after a provider call that was to move it to st.
After(c, ret, st) == IF ret = 1 /\ c.state # "Failed" THEN st ELSE "Failed"

\* The index of the first public key EVP_SealInit cannot wrap under, or
\* Len(keys) + 1.
FirstBad(keys) ==
  IF \E i \in 1 .. Len(keys) : EVP_PKEY_size(keys[i]) = 0
    THEN CHOOSE i \in 1 .. Len(keys) :
           /\ EVP_PKEY_size(keys[i]) = 0
           /\ \A j \in 1 .. (i - 1) : EVP_PKEY_size(keys[j]) # 0
    ELSE Len(keys) + 1

\* EVP_SealInit: a random key and IV, the key wrapped under each public key
\* in turn.  Returns npubk; 1 for no keys; -1 at the first key that fails;
\* 0 when the provider itself fails (ok = FALSE).
EVP_SealInit(c, type, ek, ivbuf, pubk, key, rnd, ok) ==
  LET n == Len(pubk)
      bad == FirstBad(pubk)
      started == [c EXCEPT !.cipher = type]
  IN  IF ~ok
        THEN [ret |-> 0, ek |-> ek, ekl |-> [i \in 1 .. n |-> 0], iv |-> ivbuf,
              ctx |-> [started EXCEPT !.state = "Failed"]]
      ELSE IF n = 0
        THEN [ret |-> 1, ek |-> ek, ekl |-> <<>>, iv |-> ivbuf,
              ctx |-> [started EXCEPT !.state = "Initialized"]]
        ELSE [ret |-> IF bad <= n THEN -1 ELSE n,
              ek  |-> [i \in 1 .. n |->
                         IF i < bad THEN WriteAt(ek[i], 0, Wrap(pubk[i], key))
                         ELSE ek[i]],
              ekl |-> [i \in 1 .. n |->
                         IF i < bad THEN Len(Wrap(pubk[i], key)) ELSE 0],
              iv  |-> WriteAt(ivbuf, 0, rnd),
              ctx |-> [started EXCEPT
                         !.key = key, !.iv = rnd,
                         !.state = IF bad <= n THEN "Failed" ELSE "Initialized"]]

\* EVP_SealUpdate (EVP_EncryptUpdate): whole blocks are emitted, the rest is
\* buffered.
EVP_SealUpdate(c, in, ok) ==
  LET bs == EVP_CIPHER_block_size(c.cipher)
      data == c.buf \o in
      n == (Len(data) \div bs) * bs
      out == CbcEnc(c.key, bs, c.iv, Take(data, n))
  IN  IF ~ok THEN [ret |-> 0, out |-> <<>>, ctx |-> [c EXCEPT !.state = "Failed"]]
      ELSE [ret |-> 1, out |-> out,
            ctx |-> [c EXCEPT !.buf = Drop(data, n),
                              !.iv = LastBlock(bs, c.iv, out),
                              !.state = After(c, 1, "Updated")]]

\* EVP_SealFinal (EVP_EncryptFinal): pads the buffered bytes to one block
\* (nothing for a cipher of block size 1).
EVP_SealFinal(c, ok) ==
  LET bs == EVP_CIPHER_block_size(c.cipher)
      n == bs - Len(c.buf)
      padded == c.buf \o [i \in 1 .. n |-> n]
      done == [c EXCEPT !.buf = <<>>, !.state = After(c, 1, "Finalized")]
  IN  IF ~ok THEN [ret |-> 0, out |-> <<>>, ctx |-> [c EXCEPT !.state = "Failed"]]
      ELSE IF bs = 1 THEN [ret |-> 1, out |-> <<>>, ctx |-> done]
      ELSE [ret |-> 1, out |-> CbcEnc(c.key, bs, c.iv, padded), ctx |-> done]

\* EVP_OpenInit: unwraps the key with the private key (0 when that fails),
\* then sets key and IV.
EVP_OpenInit(c, type, ek, ivread, priv, ok) ==
  LET key == Unwrap(priv, ek)
  IN  IF ~ok \/ key = 0
        THEN [ret |-> 0, ctx |-> [c EXCEPT !.cipher = type, !.state = "Failed"]]
        ELSE [ret |-> 1,
              ctx |-> [c EXCEPT !.cipher = type, !.key = key, !.iv = ivread,
                                !.state = "Initialized"]]

\* EVP_OpenUpdate (EVP_DecryptUpdate): whole blocks are decrypted into the
\* output; with padding, a last whole block is held back (it stays
\* written in the output, but is not counted in outl).
EVP_OpenUpdate(c, in, ok) ==
  LET bs == EVP_CIPHER_block_size(c.cipher)
      data == c.buf \o in
      n == (Len(data) \div bs) * bs
      dec == CbcDec(c.key, bs, c.iv, Take(data, n))
      hold == bs > 1 /\ n = Len(data) /\ n > 0
  IN  IF ~ok
        THEN [ret |-> 0, out |-> <<>>, outl |-> 0,
              ctx |-> [c EXCEPT !.state = "Failed"]]
      ELSE IF Len(in) = 0
        THEN [ret |-> 1, out |-> <<>>, outl |-> 0,
              ctx |-> [c EXCEPT !.state = After(c, 1, "Updated")]]
      ELSE [ret |-> 1, out |-> dec,
            outl |-> IF hold THEN n - bs ELSE n,
            ctx |-> [c EXCEPT !.buf = Drop(data, n),
                              !.iv = LastBlock(bs, c.iv, Take(data, n)),
                              !.final = IF hold THEN Drop(dec, n - bs) ELSE <<>>,
                              !.final_used = hold,
                              !.state = After(c, 1, "Updated")]]

\* EVP_OpenFinal (EVP_DecryptFinal): checks the final block's length and
\* padding and emits what precedes the padding.
EVP_OpenFinal(c, ok) ==
  LET bs == EVP_CIPHER_block_size(c.cipher)
      good == /\ Len(c.buf) = 0
              /\ c.final_used
              /\ c.final[bs] >= 1
              /\ c.final[bs] <= bs
              /\ \A i \in (bs - c.final[bs] + 1) .. bs : c.final[i] = c.final[bs]
      done == [c EXCEPT !.state = After(c, 1, "Finalized")]
  IN  IF ~ok THEN [ret |-> 0, out |-> <<>>, ctx |-> [c EXCEPT !.state = "Failed"]]
      ELSE IF bs = 1 THEN [ret |-> 1, out |-> <<>>, ctx |-> done]
      ELSE IF good
        THEN [ret |-> 1, out |-> Take(c.final, bs - c.final[bs]), ctx |-> done]
      ELSE [ret |-> 0, out |-> <<>>, ctx |-> [c EXCEPT !.state = "Failed"]]

\* ------------------------------------------------------------------ state
VARIABLES
  build,           \* "assert" or "NDEBUG" once an assert decided it, else "any"
  pc,              \* position of the one call in progress
  args,            \* the current call's inputs
  sealed,          \* inputs of the Seal call whose outputs the caller holds
  encrypted_keys,  \* Seal's output containers (the caller's)
  iv,
  ciphertext,
  plaintext,       \* Open's output: the caller's buffer, or the vector
  cipher,          \* locals of the call
  ctx,
  len,
  total_len,
  encrypted_keys_len,
  outcome,         \* how the call ended
  result,          \* the value the core of Open returned
  hist             \* what the call has done so far

vars == <<build, pc, args, sealed, encrypted_keys, iv, ciphertext, plaintext,
          cipher, ctx, len, total_len, encrypted_keys_len, outcome, result, hist>>

NoArgs ==
  [op |-> "none", cipher_name |-> "", pub_keys |-> <<>>, plaintext |-> <<>>,
   slot |-> 0, deviation |-> "none", priv_key |-> 0, ciphertext |-> <<>>,
   encrypted_key |-> <<>>, iv |-> <<>>, cap |-> 0]

\* init, update, final: calls of the provider's three steps; fed: the input
\* of the update; written_end: the end of the stores into the output;
\* resized: an output container was resized; fault: the provider failed for
\* a reason of its own (no memory, no random bytes, engine failure).
NoHist ==
  [init |-> 0, update |-> 0, final |-> 0, fed |-> <<>>, written_end |-> 0,
   resized |-> FALSE, fault |-> FALSE]

locals == <<cipher, ctx, len, total_len, encrypted_keys_len>>

sealOut == <<encrypted_keys, iv, ciphertext>>

Init ==
  /\ build = "any"
  /\ pc = "idle"
  /\ args = NoArgs
  /\ sealed = NoArgs
  /\ encrypted_keys = <<>>
  /\ iv = <<>>
  /\ ciphertext = <<>>
  /\ plaintext = <<>>
  /\ cipher = ""
  /\ ctx = NullCtx
  /\ len = 0
  /\ total_len = 0
  /\ encrypted_keys_len = <<>>
  /\ outcome = "none"
  /\ result = 0
  /\ hist = NoHist

\* LogAndThrowOpenSSLError (util/crypto/openssl_error.h): throws; the
\* kind of failure the caller sees is told by the message it is given:
\* the "Unknown cipher" message, or none (OpenSSL's own error text).
LogAndThrowOpenSSLError(msg) ==
  IF msg = "" THEN "CryptoOperationFailed" ELSE "UnknownCipher"

\* The call ends: by an exception, by abort() in a failed assert, by a
\* crash, or by returning.
Ends(how) ==
  /\ pc' = "done"
  /\ outcome' = how

FreshLocals ==
  /\ cipher' = ""
  /\ ctx' = NullCtx
  /\ len' = 0
  /\ total_len' = 0
  /\ encrypted_keys_len' = <<>>
  /\ outcome' = "none"
  /\ result' = 0
  /\ hist' = NoHist

\* assert(cond) where cond is false: abort() in a build with assertions,
\* nothing in a build with NDEBUG.  The build is the same for the whole
\* process; it is settled by the first assert that fails.
AssertAborts ==
  /\ build \in {"any", "assert"}
  /\ build' = "assert"
  /\ Ends("abort")

AssertSkipped ==
  /\ build \in {"any", "NDEBUG"}
  /\ build' = "NDEBUG"

\* The same exception without the scope exit: the context is not freed.
Throw_Leak(c) ==
  /\ Ends(LogAndThrowOpenSSLError(""))
  /\ ctx' = [c EXCEPT !.state = "Failed"]

\* An exception after the context was created leaves through the scope
\* exit, which frees the context.
Throw(c) ==
  /\ Ends(LogAndThrowOpenSSLError(""))
  /\ ctx' = FreeCtx([c EXCEPT !.state = "Failed"])

\* What the caller's containers hold when a call begins: output of an
\* earlier use.
EntryKeys == <<StaleVec>>

EntryBuffer(form, cap) ==
  IF form = "OpenSized" THEN [j \in 1 .. cap |-> Stale] ELSE StaleVec

\* ------------------------------------------------------------ Envelope::Seal
\* The caller calls Seal with output containers that still hold old content.
CallSeal ==
  /\ pc = "idle"
  /\ \E name \in CipherNames, keys \in PubKeyLists, p \in Plaintexts :
       args' = [NoArgs EXCEPT !.op = "Seal", !.cipher_name = name,
                              !.pub_keys = keys, !.plaintext = p]
  /\ sealed' = NoArgs
  /\ encrypted_keys' = EntryKeys
  /\ iv' = StaleVec
  /\ ciphertext' = StaleVec
  /\ plaintext' = <<>>
  /\ pc' = "seal_resolve"
  /\ FreshLocals
  /\ UNCHANGED build

\* The same throw after the IV container was already touched.
SealLookupFails_Resized ==
  /\ Ends(LogAndThrowOpenSSLError("Unknown cipher"))
  /\ iv' = Resize(iv, 0)
  /\ UNCHANGED <<cipher, encrypted_keys, ciphertext>>

\* lines 45-48: the throw for a cipher name that does not resolve.
SealLookupFails ==
  /\ Ends(LogAndThrowOpenSSLError("Unknown cipher"))
  /\ UNCHANGED <<cipher, sealOut>>

\* lines 37-48: the asserts and the cipher lookup.
SealResolve ==
  /\ pc = "seal_resolve"
  /\ \/ /\ Len(args.pub_keys) = 0
        /\ AssertAborts
        /\ UNCHANGED <<cipher, sealOut>>
     \/ /\ IF Len(args.pub_keys) = 0 THEN AssertSkipped ELSE UNCHANGED build
        /\ IF EVP_get_cipherbyname(args.cipher_name) = ""
             THEN SealLookupFails
             ELSE /\ cipher' = EVP_get_cipherbyname(args.cipher_name)
                  /\ pc' = "seal_alloc"
                  /\ UNCHANGED <<outcome, sealOut>>
  /\ UNCHANGED <<args, sealed, plaintext, ctx, len, total_len,
                 encrypted_keys_len, result, hist>>

\* The IV sized by the block size instead.
SealIvSize_Block == EVP_CIPHER_block_size(cipher)

\* line 56
SealIvSize == EVP_CIPHER_iv_length(cipher)

\* The ciphertext sized without the extra block.
SealCiphertextSize_NoBlock == Len(args.plaintext)

\* lines 57-58
SealCiphertextSize == Len(args.plaintext) + EVP_CIPHER_block_size(cipher)

\* lines 50-64: the output containers are sized for the worst case.
SealAlloc ==
  /\ pc = "seal_alloc"
  /\ LET n == Len(args.pub_keys)
         outer == ResizeOuter(encrypted_keys, n)
     IN  /\ encrypted_keys' =
              [i \in 1 .. n |-> Resize(outer[i], EVP_PKEY_size(args.pub_keys[i]))]
         /\ encrypted_keys_len' = [i \in 1 .. n |-> 0]
  /\ iv' = Resize(iv, SealIvSize)
  /\ ciphertext' = Resize(ciphertext, SealCiphertextSize)
  /\ hist' = [hist EXCEPT !.resized = TRUE]
  /\ pc' = "seal_ctx_new"
  /\ UNCHANGED <<build, args, sealed, plaintext, cipher, ctx, len, total_len,
                 outcome, result>>

\* lines 66-73: EVP_CIPHER_CTX_new and the scope exit that will free it.
SealCtxNew ==
  /\ pc = "seal_ctx_new"
  /\ \E ok \in BOOLEAN :
       IF ok
         THEN /\ ctx' = NewCtx
              /\ pc' = "seal_init"
              /\ UNCHANGED <<outcome, hist>>
         ELSE /\ Ends(LogAndThrowOpenSSLError(""))
              /\ hist' = [hist EXCEPT !.fault = TRUE]
              /\ UNCHANGED ctx
  /\ UNCHANGED <<build, args, sealed, sealOut, plaintext, cipher, len,
                 total_len, encrypted_keys_len, result>>

\* The test as the other EVP calls are tested: only 0 counts as failure.
SealInitFailed_ZeroOnly(ret) == ret = 0

\* line 75: the test of EVP_SealInit's return value.
SealInitFailed(ret) == Len(args.pub_keys) # ret

\* lines 75-80
SealInit ==
  /\ pc = "seal_init"
  /\ \E key \in SymKeys, rnd \in RandIVs(EVP_CIPHER_iv_length(cipher)),
        ok \in BOOLEAN :
       LET r == EVP_SealInit(ctx, cipher, encrypted_keys, iv, args.pub_keys,
                             key, rnd, ok)
       IN  /\ encrypted_keys' = r.ek
           /\ iv' = r.iv
           /\ encrypted_keys_len' = r.ekl
           /\ hist' = [hist EXCEPT !.init = @ + 1, !.fault = ~ok]
           /\ IF SealInitFailed(r.ret)
                THEN Throw(r.ctx)
                ELSE /\ ctx' = r.ctx
                     /\ pc' = "seal_update"
                     /\ UNCHANGED outcome
  /\ UNCHANGED <<build, args, sealed, ciphertext, plaintext, cipher, len,
                 total_len, result>>

\* lines 82-89: the whole plaintext in one update.
SealUpdate ==
  /\ pc = "seal_update"
  /\ \E ok \in BOOLEAN :
       LET r == EVP_SealUpdate(ctx, args.plaintext, ok)
       IN  /\ ciphertext' = WriteAt(ciphertext, 0, r.out)
           /\ len' = Len(r.out)
           /\ hist' = [hist EXCEPT !.update = @ + 1, !.fed = args.plaintext,
                                   !.written_end = Len(r.out), !.fault = ~ok]
           /\ IF 1 # r.ret
                THEN Throw(r.ctx) /\ UNCHANGED total_len
                ELSE /\ ctx' = r.ctx
                     /\ total_len' = Len(r.out)
                     /\ pc' = "seal_final"
                     /\ UNCHANGED outcome
  /\ UNCHANGED <<build, args, sealed, encrypted_keys, iv, plaintext, cipher,
                 encrypted_keys_len, result>>

\* lines 91-94
SealFinal ==
  /\ pc = "seal_final"
  /\ \E ok \in BOOLEAN :
       LET r == EVP_SealFinal(ctx, ok)
       IN  /\ ciphertext' = WriteAt(ciphertext, len, r.out)
           /\ len' = Len(r.out)
           /\ hist' = [hist EXCEPT !.final = @ + 1, !.fault = ~ok,
                                   !.written_end = len + Len(r.out)]
           /\ IF 1 # r.ret
                THEN Throw(r.ctx) /\ UNCHANGED total_len
                ELSE /\ ctx' = r.ctx
                     /\ total_len' = total_len + Len(r.out)
                     /\ pc' = "seal_truncate"
                     /\ UNCHANGED outcome
  /\ UNCHANGED <<build, args, sealed, encrypted_keys, iv, plaintext, cipher,
                 encrypted_keys_len, result>>

\* The encrypted key left at its allocated size.
SealKeyLength_Allocated(i) == Len(encrypted_keys[i])

\* line 97: the length encrypted key i is cut to.
SealKeyLength(i) == encrypted_keys_len[i]

\* The ciphertext cut to the length of the last step only.
SealFinalLength_LastLen == len

\* line 99: the length the ciphertext is cut to.
SealFinalLength == total_len

\* lines 96-100: the containers are cut to what was written; the call
\* returns and the scope exit frees the context.
SealTruncate ==
  /\ pc = "seal_truncate"
  /\ encrypted_keys' =
       [i \in 1 .. Len(args.pub_keys) |->
          Resize(encrypted_keys[i], SealKeyLength(i))]
  /\ ciphertext' = Resize(ciphertext, SealFinalLength)
  /\ ctx' = FreeCtx(ctx)
  /\ sealed' = args
  /\ Ends("ok")
  /\ UNCHANGED <<build, args, iv, plaintext, cipher, len, total_len,
                 encrypted_keys_len, result, hist>>

\* ------------------------------------------------------------ Envelope::Open
Deviations ==
  {"none", "unknown_cipher", "wrong_key", "iv_short", "iv_long", "ct_tamper",
   "ct_trunc", "cap"}

Forms == {"OpenSized", "OpenAlloc"}

\* The inputs a recipient passes to Open for slot i of the envelope the
\* caller holds: the right ones, or the right ones with one thing changed.
OpenArgs(form, i, d, other, c) ==
  [NoArgs EXCEPT
     !.op = form,
     !.slot = i,
     !.deviation = d,
     !.cipher_name = IF d = "unknown_cipher" THEN "nope" ELSE sealed.cipher_name,
     !.priv_key = IF d = "wrong_key" THEN other ELSE sealed.pub_keys[i],
     !.encrypted_key = encrypted_keys[i],
     !.iv = CASE d = "iv_short" -> Take(iv, Len(iv) - 1)
              [] d = "iv_long" -> Append(iv, 0)
              [] OTHER -> iv,
     !.ciphertext =
        CASE d = "ct_tamper" ->
               [ciphertext EXCEPT ![Len(ciphertext)] = (@ + 1) % 3]
          [] d = "ct_trunc" -> Take(ciphertext, Len(ciphertext) - 1)
          [] OTHER -> ciphertext,
     !.cap = c]

\* The capacity Open's documentation asks of the caller's buffer.
EnoughCap == Len(ciphertext) + EVP_CIPHER_block_size(sealed.cipher_name)

\* Capacities of the caller's buffer that are smaller than that.
SmallCaps == {c \in {0, Len(ciphertext) - 1, Len(ciphertext)} : c >= 0}

\* A recipient calls Open on the envelope Seal has just returned.
CallOpen ==
  /\ pc = "done"
  /\ args.op = "Seal"
  /\ outcome = "ok"
  /\ \E form \in Forms, i \in 1 .. Len(encrypted_keys), d \in Deviations,
        other \in PrivKeyIds, c \in SmallCaps \cup {0, EnoughCap} :
       /\ d = "wrong_key" => other # sealed.pub_keys[i]
       /\ d # "wrong_key" => other = 1
       /\ d = "iv_short" => Len(iv) > 0
       /\ d \in {"ct_tamper", "ct_trunc"} => Len(ciphertext) > 0
       /\ d = "cap" => form = "OpenSized" /\ c \in SmallCaps
       /\ d # "cap" => c = IF form = "OpenSized" THEN EnoughCap ELSE 0
       /\ args' = OpenArgs(form, i, d, other, c)
       /\ plaintext' = EntryBuffer(form, c)
       /\ pc' = IF form = "OpenSized" THEN "open_sized_resolve"
                ELSE "open_alloc_resolve"
  /\ FreshLocals
  /\ UNCHANGED <<build, sealed, sealOut>>

\* lines 120-125: the sized-buffer form.
OpenSizedResolve ==
  /\ pc = "open_sized_resolve"
  /\ IF EVP_get_cipherbyname(args.cipher_name) = ""
       THEN Ends(LogAndThrowOpenSSLError("Unknown cipher")) /\ UNCHANGED cipher
       ELSE /\ cipher' = EVP_get_cipherbyname(args.cipher_name)
            /\ pc' = "open_assert"
            /\ UNCHANGED outcome
  /\ UNCHANGED <<build, args, sealed, sealOut, plaintext, ctx, len, total_len,
                 encrypted_keys_len, result, hist>>

\* lines 150-151: the size the allocating form gives its vector.
OpenAllocSize(c) == Len(args.ciphertext) + EVP_CIPHER_block_size(c)

\* lines 145-153: the allocating form sizes the vector for the worst case.
OpenAllocResolve ==
  /\ pc = "open_alloc_resolve"
  /\ IF EVP_get_cipherbyname(args.cipher_name) = ""
       THEN /\ Ends(LogAndThrowOpenSSLError("Unknown cipher"))
            /\ UNCHANGED <<cipher, plaintext, hist>>
       ELSE /\ cipher' = EVP_get_cipherbyname(args.cipher_name)
            /\ plaintext' =
                 Resize(plaintext,
                        OpenAllocSize(EVP_get_cipherbyname(args.cipher_name)))
            /\ hist' = [hist EXCEPT !.resized = TRUE]
            /\ pc' = "open_assert"
            /\ UNCHANGED outcome
  /\ UNCHANGED <<build, args, sealed, sealOut, ctx, len, total_len,
                 encrypted_keys_len, result>>

\* lines 162-163: the IV's length is asserted; nothing else checks it.
OpenAssert ==
  /\ pc = "open_assert"
  /\ IF Len(args.iv) = EVP_CIPHER_iv_length(cipher)
       THEN pc' = "open_ctx_new" /\ UNCHANGED <<build, outcome>>
       ELSE \/ AssertAborts
            \/ AssertSkipped /\ pc' = "open_ctx_new" /\ UNCHANGED outcome
  /\ UNCHANGED <<args, sealed, sealOut, plaintext, locals, result, hist>>

\* lines 165-176: EVP_CIPHER_CTX_new and the scope exit that will free it.
OpenCtxNew ==
  /\ pc = "open_ctx_new"
  /\ \E ok \in BOOLEAN :
       IF ok
         THEN /\ ctx' = NewCtx
              /\ pc' = "open_init"
              /\ UNCHANGED <<outcome, hist>>
         ELSE /\ Ends(LogAndThrowOpenSSLError(""))
              /\ hist' = [hist EXCEPT !.fault = TRUE]
              /\ UNCHANGED ctx
  /\ UNCHANGED <<build, args, sealed, sealOut, plaintext, cipher, len,
                 total_len, encrypted_keys_len, result>>

\* The iv_length bytes EVP_OpenInit can read at iv: the buffer's own bytes
\* and, past the end of a shorter buffer, whatever lies behind it.
IvReads(ivbuf, n) ==
  {r \in [1 .. n -> Byte] : \A i \in 1 .. Min(n, Len(ivbuf)) : r[i] = ivbuf[i]}

\* The test for a negative return only.
OpenInitFailed_Negative(ret) == ret < 0

\* line 178: the test of EVP_OpenInit's return value.
OpenInitFailed(ret) == 0 = ret

\* lines 178-186.  Reading past the end of a short IV is undefined: the
\* read yields some bytes, or the process dies.
OpenInit ==
  /\ pc = "open_init"
  /\ \/ \E ivread \in IvReads(args.iv, EVP_CIPHER_iv_length(cipher)),
           ok \in BOOLEAN :
          LET r == EVP_OpenInit(ctx, cipher, args.encrypted_key, ivread,
                                args.priv_key, ok)
          IN  /\ hist' = [hist EXCEPT !.init = @ + 1, !.fault = ~ok]
              /\ IF OpenInitFailed(r.ret)
                   THEN Throw(r.ctx)
                   ELSE /\ ctx' = r.ctx
                        /\ pc' = "open_update"
                        /\ UNCHANGED outcome
     \/ /\ Len(args.iv) < EVP_CIPHER_iv_length(cipher)
        /\ Unwrap(args.priv_key, args.encrypted_key) # 0
        /\ hist' = [hist EXCEPT !.init = @ + 1]
        /\ Ends("crash")
        /\ UNCHANGED ctx
  /\ UNCHANGED <<build, args, sealed, sealOut, plaintext, cipher, len,
                 total_len, encrypted_keys_len, result>>

\* A store past the end of the caller's buffer is undefined: the process
\* may die there, or go on with the memory behind the buffer overwritten.
AfterStore(end, goOn) ==
  \/ goOn
  \/ /\ end > Len(plaintext)
     /\ Ends("crash")
     /\ UNCHANGED <<ctx, len, total_len>>

\* lines 188-195: the whole ciphertext in one update.
OpenUpdate ==
  /\ pc = "open_update"
  /\ \E ok \in BOOLEAN :
       LET r == EVP_OpenUpdate(ctx, args.ciphertext, ok)
       IN  /\ plaintext' = WriteAt(plaintext, 0, r.out)
           /\ hist' = [hist EXCEPT !.update = @ + 1, !.fed = args.ciphertext,
                                   !.written_end = Len(r.out), !.fault = ~ok]
           /\ AfterStore(Len(r.out),
                /\ len' = r.outl
                /\ IF 1 # r.ret
                     THEN Throw(r.ctx) /\ UNCHANGED total_len
                     ELSE /\ ctx' = r.ctx
                          /\ total_len' = r.outl
                          /\ pc' = "open_final"
                          /\ UNCHANGED outcome)
  /\ UNCHANGED <<build, args, sealed, sealOut, cipher, encrypted_keys_len,
                 result>>

\* The final block stored at the end of the buffer.
OpenFinalOffset_Capacity == Len(plaintext)

\* line 199: where in the buffer the final block goes.
OpenFinalOffset == len

\* lines 197-203
OpenFinal ==
  /\ pc = "open_final"
  /\ \E ok \in BOOLEAN :
       LET r == EVP_OpenFinal(ctx, ok)
           end == IF Len(r.out) > 0 /\ OpenFinalOffset + Len(r.out) > hist.written_end
                    THEN OpenFinalOffset + Len(r.out)
                    ELSE hist.written_end
       IN  /\ plaintext' = WriteAt(plaintext, OpenFinalOffset, r.out)
           /\ hist' = [hist EXCEPT !.final = @ + 1, !.written_end = end,
                                   !.fault = ~ok]
           /\ AfterStore(end,
                IF 1 # r.ret
                  THEN Throw(r.ctx) /\ UNCHANGED <<len, total_len>>
                  ELSE /\ ctx' = r.ctx
                       /\ len' = Len(r.out)
                       /\ total_len' = total_len + Len(r.out)
                       /\ pc' = "open_return"
                       /\ UNCHANGED outcome)
  /\ UNCHANGED <<build, args, sealed, sealOut, cipher, encrypted_keys_len,
                 result>>

\* lines 204-206 (and 125): the assert on the length, the return of the
\* core through the scope exit and, in the sized-buffer form, of the call.
OpenReturn ==
  /\ pc = "open_return"
  /\ \/ /\ ~(total_len <= Len(plaintext))
        /\ AssertAborts
        /\ UNCHANGED <<ctx, result>>
     \/ /\ IF total_len <= Len(plaintext) THEN UNCHANGED build ELSE AssertSkipped
        /\ ctx' = FreeCtx(ctx)
        /\ result' = total_len
        /\ IF args.op = "OpenSized"
             THEN Ends("ok")
             ELSE pc' = "open_alloc_return" /\ UNCHANGED outcome
  /\ UNCHANGED <<args, sealed, sealOut, plaintext, cipher, len, total_len,
                 encrypted_keys_len, hist>>

\* line 154: the vector is cut to the plaintext's length.
OpenAllocReturn ==
  /\ pc = "open_alloc_return"
  /\ plaintext' = Resize(plaintext, result)
  /\ Ends("ok")
  /\ UNCHANGED <<build, args, sealed, sealOut, locals, result, hist>>

\* The caller is done with the envelope and its buffers; what follows may
\* be another process.
CallerDiscards ==
  /\ pc = "done"
  /\ pc' = "idle"
  /\ build' = "any"
  /\ args' = NoArgs
  /\ sealed' = NoArgs
  /\ encrypted_keys' = <<>>
  /\ iv' = <<>>
  /\ ciphertext' = <<>>
  /\ plaintext' = <<>>
  /\ FreshLocals

Next ==
  \/ CallSeal
  \/ SealResolve
  \/ SealAlloc
  \/ SealCtxNew
  \/ SealInit
  \/ SealUpdate
  \/ SealFinal
  \/ SealTruncate
  \/ CallOpen
  \/ OpenSizedResolve
  \/ OpenAllocResolve
  \/ OpenAssert
  \/ OpenCtxNew
  \/ OpenInit
  \/ OpenUpdate
  \/ OpenFinal
  \/ OpenReturn
  \/ OpenAllocReturn
  \/ CallerDiscards

Spec == Init /\ [][Next]_vars

\* ------------------------------------------------------------ properties
SealCall == args.op = "Seal"

OpenCall == args.op \in Forms

\* Seal's precondition (asserted at line 38): at least one public key.
SealPre == Len(args.pub_keys) >= 1

SealReturned == pc = "done" /\ SealCall /\ SealPre /\ outcome = "ok"

\* The plaintext an Open call hands back: the first `result` bytes of the
\* caller's buffer, or the vector.
Recovered == IF args.op = "OpenSized" THEN Take(plaintext, result) ELSE plaintext

\* Open is called for slot args.slot with exactly what Seal returned, the
\* private key of that slot's public key and a buffer of the documented size.
MatchingOpen ==
  /\ OpenCall
  /\ args.cipher_name = sealed.cipher_name
  /\ args.priv_key = sealed.pub_keys[args.slot]
  /\ args.encrypted_key = encrypted_keys[args.slot]
  /\ args.ciphertext = ciphertext
  /\ args.iv = iv
  /\ args.op = "OpenSized" => args.cap >= EnoughCap

\* The ciphertext of p under key k and IV v, computed in one piece: the
\* padded plaintext through the cipher.
WholeEncrypt(c, k, v, p) ==
  LET bs == EVP_CIPHER_block_size(c)
      n == bs - (Len(p) % bs)
  IN  IF bs = 1 THEN CbcEnc(k, bs, v, p)
      ELSE CbcEnc(k, bs, v, p \o [i \in 1 .. n |-> n])

\* C1 (round trip): an Open call that is given what a successful Seal
\* returned (its ciphertext, its IV, encrypted key i) and the private key
\* matching public key i ends successfully with exactly Seal's plaintext,
\* for every slot i, the empty plaintext included -- the provider having
\* had no failure of its own (memory, engine) during the call.
C1_RoundTrip ==
  (pc = "done" /\ MatchingOpen /\ ~hist.fault)
    => (outcome = "ok" /\ Recovered = sealed.plaintext)

C1_Witness ==
  /\ pc = "done"
  /\ MatchingOpen
  /\ outcome = "ok"
  /\ args.slot = 2
  /\ Len(sealed.plaintext) = 3
  /\ sealed.cipher_name = "cbc"
  /\ Recovered = sealed.plaintext

\* C2 (fan-out): after a successful Seal there are as many encrypted keys
\* as public keys, entry i is the symmetric key wrapped under public key i,
\* and it is one and the same symmetric key in all entries, the key under
\* which, with the one returned IV, the plaintext became the ciphertext.
C2_FanOut ==
  SealReturned =>
    /\ Len(encrypted_keys) = Len(args.pub_keys)
    /\ \E k \in SymKeys :
         /\ \A i \in 1 .. Len(args.pub_keys) :
              /\ encrypted_keys[i] = Wrap(args.pub_keys[i], k)
              /\ Unwrap(args.pub_keys[i], encrypted_keys[i]) = k
         /\ ciphertext = WholeEncrypt(cipher, k, iv, args.plaintext)

C2_Witness ==
  /\ SealReturned
  /\ args.pub_keys = <<2, 1>>
  /\ Len(encrypted_keys) = 2
  /\ Len(args.plaintext) = 3

\* C8 (ciphertext sizing): after a successful Seal the ciphertext is at
\* least as long as the plaintext and at most one block longer, the IV has
\* the cipher's IV length, the ciphertext is cut to exactly the bytes that
\* update and finalize wrote, and with a padded block cipher an empty
\* plaintext gives exactly one block.
C8_CiphertextSizing ==
  SealReturned =>
    /\ Len(args.plaintext) <= Len(ciphertext)
    /\ Len(ciphertext) <= Len(args.plaintext) + EVP_CIPHER_block_size(cipher)
    /\ Len(iv) = EVP_CIPHER_iv_length(cipher)
    /\ Len(ciphertext) = hist.written_end
    /\ (EVP_CIPHER_block_size(cipher) > 1 /\ Len(args.plaintext) = 0)
         => Len(ciphertext) = EVP_CIPHER_block_size(cipher)

C8_Witness ==
  /\ SealReturned
  /\ cipher = "cbc"
  /\ Len(args.plaintext) = 3
  /\ Len(ciphertext) = 4

\* A call that ended the way the code provides for: by returning or by an
\* exception (not by abort() or a crash, which end the process).
Returned == pc = "done" /\ outcome \in {"ok", "UnknownCipher", "CryptoOperationFailed"}

\* Open is called for slot args.slot with what Seal returned, but with a
\* private key that does not match that slot's public key.
WrongKeyOpen ==
  /\ OpenCall
  /\ args.cipher_name = sealed.cipher_name
  /\ args.encrypted_key = encrypted_keys[args.slot]
  /\ args.iv = iv
  /\ args.priv_key # sealed.pub_keys[args.slot]

\* C3 (wrong-key rejection): an Open call with encrypted key i and a
\* private key that does not match public key i never gets to decrypt
\* anything and ends with CryptoOperationFailed; it returns no plaintext
\* length.
C3_WrongKeyRejected ==
  WrongKeyOpen =>
    /\ hist.update = 0
    /\ hist.final = 0
    /\ result = 0
    /\ outcome \in {"none", "CryptoOperationFailed"}
    /\ pc = "done" => outcome = "CryptoOperationFailed"

C3_Witness ==
  /\ pc = "done"
  /\ WrongKeyOpen
  /\ hist.init = 1
  /\ ~hist.fault
  /\ outcome = "CryptoOperationFailed"
  /\ Len(args.ciphertext) = 4

\* Open is called with an IV whose length is not the cipher's IV length.
WrongIvOpen ==
  /\ OpenCall
  /\ EVP_get_cipherbyname(args.cipher_name) # ""
  /\ Len(args.iv) # EVP_CIPHER_iv_length(EVP_get_cipherbyname(args.cipher_name))

\* C4 (IV length validation): every Open call with an IV of the wrong
\* length ends with the error InvalidIVLength, before a context is
\* created and before the key is unwrapped or anything is decrypted.
C4_IvLengthValidated ==
  (pc = "done" /\ WrongIvOpen) =>
    /\ outcome = "InvalidIVLength"
    /\ ctx.news = 0
    /\ hist.init = 0
    /\ hist.update = 0
    /\ hist.final = 0

\* C5 (unknown cipher): Seal (with at least one public key) and both forms
\* of Open, called with a cipher name that does not resolve, end with
\* UnknownCipher having done nothing: the output containers hold what
\* they held at the call, no context was created, no key or IV generated,
\* nothing resized.
C5_UnknownCipherNoEffect ==
  (/\ pc = "done"
   /\ args.op # "none"
   /\ EVP_get_cipherbyname(args.cipher_name) = ""
   /\ SealCall => SealPre) =>
    /\ outcome = "UnknownCipher"
    /\ ctx = NullCtx
    /\ hist = NoHist
    /\ SealCall =>
         encrypted_keys = EntryKeys /\ iv = StaleVec /\ ciphertext = StaleVec
    /\ OpenCall => plaintext = EntryBuffer(args.op, args.cap)

C5_Witness ==
  /\ pc = "done"
  /\ SealCall
  /\ Len(args.pub_keys) = 2
  /\ Len(args.plaintext) = 3
  /\ outcome = "UnknownCipher"
  /\ iv = StaleVec

\* C6 as claimed (no partial output on failure): after a call that failed
\* in or after context initialization the caller's output containers hold
\* nothing of that call: they are as they were at the call.
C6_NoPartialOutput ==
  (pc = "done" /\ outcome = "CryptoOperationFailed" /\ hist.init >= 1) =>
    /\ SealCall =>
         encrypted_keys = EntryKeys /\ iv = StaleVec /\ ciphertext = StaleVec
    /\ OpenCall => plaintext = EntryBuffer(args.op, args.cap)

\* C6 as amended: a call that fails with CryptoOperationFailed returns
\* nothing, but leaves the caller's containers as it had sized them for
\* the worst case: after Seal, one encrypted key per public key of
\* EVP_PKEY_size bytes, an IV of iv_length bytes and a ciphertext of
\* len(plaintext) + block_size bytes; after the allocating Open, a vector
\* of len(ciphertext) + block_size bytes.
C6_FailureLeavesWorstCaseSizes ==
  (pc = "done" /\ outcome = "CryptoOperationFailed") =>
    /\ result = 0
    /\ SealCall =>
         /\ sealed = NoArgs
         /\ Len(encrypted_keys) = Len(args.pub_keys)
         /\ \A i \in 1 .. Len(args.pub_keys) :
              Len(encrypted_keys[i]) = EVP_PKEY_size(args.pub_keys[i])
         /\ Len(iv) = EVP_CIPHER_iv_length(cipher)
         /\ Len(ciphertext) = Len(args.plaintext) + EVP_CIPHER_block_size(cipher)
    /\ args.op = "OpenAlloc" =>
         Len(plaintext) = Len(args.ciphertext) + EVP_CIPHER_block_size(cipher)

C6_Witness ==
  /\ pc = "done"
  /\ SealCall
  /\ outcome = "CryptoOperationFailed"
  /\ hist.init = 1
  /\ ~hist.fault
  /\ args.pub_keys = <<1, 0>>
  /\ encrypted_keys[1][1] = 1
  /\ Len(iv) = 2
  /\ Len(ciphertext) = 5

\* C7 as claimed (output bound of Open): in every sized-buffer Open call
\* that returns, the returned length and the end of the stores of update
\* and finalize are within the capacity of the caller's buffer.
C7_OutputBound ==
  (pc = "done" /\ args.op = "OpenSized" /\ outcome = "ok") =>
    /\ result <= args.cap
    /\ hist.written_end <= args.cap

\* C7 as amended: in every sized-buffer Open call whose buffer has at least
\* len(ciphertext) + block_size bytes, the stores of update and finalize
\* stay within the buffer and the returned length is within its capacity.
C7_OutputBoundGivenCapacity ==
  (/\ args.op = "OpenSized"
   /\ cipher # ""
   /\ args.cap >= Len(args.ciphertext) + EVP_CIPHER_block_size(cipher)) =>
    /\ hist.written_end <= args.cap
    /\ total_len <= args.cap
    /\ (pc = "done" /\ outcome = "ok") => result <= args.cap

C7_Witness ==
  /\ pc = "done"
  /\ args.op = "OpenSized"
  /\ outcome = "ok"
  /\ args.cap = Len(args.ciphertext) + EVP_CIPHER_block_size(cipher)
  /\ result = 3
  /\ hist.written_end = 4

\* C9 (context release): a context is freed at most once and only after it
\* was created; a call creates at most one; and when a call has returned
\* or thrown, the context it created has been freed -- none is live.
C9_ContextReleased ==
  /\ ctx.frees <= ctx.news
  /\ ctx.news <= 1
  /\ ctx.live <=> (ctx.news = 1 /\ ctx.frees = 0)
  /\ Returned => (~ctx.live /\ ctx.frees = ctx.news /\ ctx.key = 0)

C9_Witness ==
  /\ pc = "done"
  /\ OpenCall
  /\ outcome = "CryptoOperationFailed"
  /\ hist.final = 1
  /\ ~hist.fault
  /\ ctx.news = 1
  /\ ctx.frees = 1

LifecycleOrder ==
  {<<"none", "Created">>, <<"Created", "Initialized">>,
   <<"Initialized", "Updated">>, <<"Updated", "Finalized">>,
   <<"Finalized", "Discarded">>, <<"Created", "Failed">>,
   <<"Initialized", "Failed">>, <<"Updated", "Failed">>}

CallBegins == pc' \in {"idle", "seal_resolve", "open_sized_resolve", "open_alloc_resolve"}

\* One step of a call, as the life cycle allows it: the context moves one
\* state forward or to Failed, and a failed context gets no further step.
LifecycleStep ==
  \/ CallBegins /\ ctx' = NullCtx /\ hist' = NoHist
  \/ /\ ctx.state' = ctx.state \/ <<ctx.state, ctx.state'>> \in LifecycleOrder
     /\ ctx.state = "Failed" => (hist' = hist /\ ctx' = ctx)
     /\ ctx.state' = "Failed" => pc' = "done"

\* Where the call is agrees with the state of its context, and the one
\* update was given the whole input.
LifecycleShape ==
  /\ hist.init <= 1 /\ hist.update <= 1 /\ hist.final <= 1
  /\ hist.update <= hist.init /\ hist.final <= hist.update
  /\ hist.update = 1 =>
       hist.fed = IF SealCall THEN args.plaintext ELSE args.ciphertext
  /\ ctx.state = "Initialized" => (hist.init = 1 /\ hist.update = 0)
  /\ ctx.state = "Updated" => (hist.update = 1 /\ hist.final = 0)
  /\ ctx.state \in {"Finalized", "Discarded"} => hist.final = 1
  /\ pc \in {"seal_resolve", "open_sized_resolve", "open_alloc_resolve"} =>
       (ctx = NullCtx /\ hist = NoHist)

\* The calls C10 speaks of: Seal's precondition holds and the process has
\* not died in the middle of a provider call.
Orderly == (SealCall => SealPre) /\ outcome # "crash"

\* C10 (life cycle): in every call that meets Seal's precondition the
\* context goes through Created, Initialized, Updated, Finalized, Discarded
\* in this order, with one update that takes the whole input; a failure
\* moves it to Failed, which ends the call, and nothing is done with it
\* afterwards; every call begins without a context.
C10_Lifecycle ==
  [][Orderly => LifecycleStep]_vars /\ [](Orderly => LifecycleShape)

C10_Witness ==
  /\ pc = "done"
  /\ OpenCall
  /\ outcome = "ok"
  /\ ctx.state = "Discarded"
  /\ hist.update = 1
  /\ hist.final = 1
  /\ Len(hist.fed) = 4
====
